---- MODULE Spec2Model ----
(***************************************************************************)
(* A model of the rust-tracer path tracer: the vector math, the sphere and *)
(* scene intersection, the materials, the recursive integrator, the        *)
(* quantisation to 8-bit colour and the parallel per-row rendering driver. *)
(*                                                                         *)
(* f64 values are modelled as exact rationals <<n, d>> in lowest terms     *)
(* (d > 0); only sqrt rounds (RSqrt), as the one operation whose result is *)
(* not rational.  Each part of the program has its own state variable and  *)
(* its own specification; a specification leaves the other parts Idle.     *)
(***************************************************************************)
EXTENDS Integers, Sequences, FiniteSets, TLC

VARIABLES render, geom, mat, integ, quant, rng, rej, pix, scene, cli, vec,
          bar

vars ==
    <<render, geom, mat, integ, quant, rng, rej, pix, scene, cli, vec, bar>>

Idle == [pc |-> "idle"]

\* The parts the first specifications leave alone together.
rest == <<rng, rej, pix, scene, cli, vec, bar>>

RestIdle ==
    /\ rng = Idle /\ rej = Idle /\ pix = Idle
    /\ scene = Idle /\ cli = Idle /\ vec = Idle /\ bar = Idle

\* Option<T>: None is the empty sequence, Some(x) is <<x>>.
None == <<>>

Some(x) == <<x>>

IsSome(o) == o # <<>>

Unwrap(o) == o[1]

(***************************************************************************)
(* Bounds of the model.                                                    *)
(***************************************************************************)
\* sqrt of a value with no rational root is rounded down to a multiple of
\* 1/SqrtDen.
SqrtDen == 100

\* The longest list of spheres a scene of the intersection model holds.
MaxSpheres == 2

\* rand() yields the multiples of 1/RandDen in [0, 1).
RandDen == 4

\* The largest number of samples per pixel.
MaxSamples == 2

(***************************************************************************)
(* Rational arithmetic standing for f64.                                   *)
(***************************************************************************)
Abs(n) == IF n < 0 THEN -n ELSE n

RECURSIVE GCD(_, _)
GCD(a, b) == IF b = 0 THEN a ELSE GCD(b, a % b)

Rat(n, d) ==
    LET g == GCD(Abs(n), Abs(d))
        s == IF d < 0 THEN -1 ELSE 1
    IN  <<(s * n) \div g, (s * d) \div g>>

I(n) == <<n, 1>>

Zero == <<0, 1>>

One == <<1, 1>>

\* f64::MAX: above every value the model's bounded inputs produce, so that
\* the cross-multiplied comparisons below order it after all of them.
F64Max == <<1, 0>>

\* a + b over the least common denominator
RAdd(a, b) ==
    LET g == GCD(a[2], b[2])
    IN  Rat(a[1] * (b[2] \div g) + b[1] * (a[2] \div g), (a[2] \div g) * b[2])

RNeg(a) == <<-a[1], a[2]>>

RSub(a, b) == RAdd(a, RNeg(b))

\* a * b, the common factors cancelled before multiplying
RMul(a, b) ==
    LET g1 == GCD(Abs(a[1]), b[2])
        g2 == GCD(Abs(b[1]), a[2])
    IN  Rat((a[1] \div g1) * (b[1] \div g2), (a[2] \div g2) * (b[2] \div g1))

RDiv(a, b) == RMul(a, Rat(b[2], b[1]))

\* a < b, cross-multiplied over the least common denominator
RLt(a, b) ==
    LET g == GCD(a[2], b[2])
    IN  a[1] * (b[2] \div g) < b[1] * (a[2] \div g)

RGt(a, b) == RLt(b, a)

RLe(a, b) == ~RLt(b, a)

RGe(a, b) == ~RLt(a, b)

RECURSIVE RPowi(_, _)
RPowi(a, k) == IF k = 0 THEN One ELSE RMul(a, RPowi(a, k - 1))

\* floor of a rational
RFloor(a) == a[1] \div a[2]

\* The integer square root, by bisection on [lo, hi).
RECURSIVE ISqrtIn(_, _, _)
ISqrtIn(n, lo, hi) ==
    IF hi - lo <= 1 THEN lo
    ELSE LET mid == (lo + hi) \div 2
         IN  IF mid * mid <= n THEN ISqrtIn(n, mid, hi) ELSE ISqrtIn(n, lo, mid)

ISqrt(n) == ISqrtIn(n, 0, (IF n < 46340 THEN n ELSE 46340) + 1)

IsSquare(n) == ISqrt(n) * ISqrt(n) = n

\* f64::sqrt is correctly rounded: exact where the root is representable
\* (here: rational), rounded down to the grid 1/SqrtDen elsewhere.
RSqrt(a) ==
    IF IsSquare(a[1]) /\ IsSquare(a[2])
    THEN Rat(ISqrt(a[1]), ISqrt(a[2]))
    ELSE Rat(ISqrt((a[1] * SqrtDen * SqrtDen) \div a[2]), SqrtDen)

(***************************************************************************)
(* Vec3 (vec3.rs): a triple of f64.                                        *)
(***************************************************************************)
IV(x, y, z) == <<I(x), I(y), I(z)>>

zeros == IV(0, 0, 0)

ones == IV(1, 1, 1)

VAdd(u, v) == <<RAdd(u[1], v[1]), RAdd(u[2], v[2]), RAdd(u[3], v[3])>>

VSub(u, v) == <<RSub(u[1], v[1]), RSub(u[2], v[2]), RSub(u[3], v[3])>>

VMul(u, v) == <<RMul(u[1], v[1]), RMul(u[2], v[2]), RMul(u[3], v[3])>>

VNeg(u) == <<RNeg(u[1]), RNeg(u[2]), RNeg(u[3])>>

VScale(s, u) == <<RMul(s, u[1]), RMul(s, u[2]), RMul(s, u[3])>>

VDivS(u, s) == <<RDiv(u[1], s), RDiv(u[2], s), RDiv(u[3], s)>>

dot(u, v) == RAdd(RAdd(RMul(u[1], v[1]), RMul(u[2], v[2])), RMul(u[3], v[3]))

norm2(u) == dot(u, u)

norm(u) == RSqrt(norm2(u))

unitize(u) == VDivS(u, norm(u))

lerp(u, b, t) == VAdd(VScale(RSub(One, t), u), VScale(t, b))

\* A mutant of reflect: the factor 2.0 is left out.
reflectOnce(v, n) == VSub(v, VScale(dot(v, n), n))

reflect(v, n) == VSub(v, VScale(RMul(I(2), dot(v, n)), n))

refract(v, n, ni_over_nt) ==
    LET uv == unitize(v)
        dt == dot(uv, n)
        disc == RSub(One, RMul(RPowi(ni_over_nt, 2), RSub(One, RPowi(dt, 2))))
    IN  IF RGt(disc, Zero)
        THEN Some(VSub(VScale(ni_over_nt, VSub(uv, VScale(dt, n))),
                       VScale(RSqrt(disc), n)))
        ELSE None

(***************************************************************************)
(* Ray (ray.rs).                                                           *)
(***************************************************************************)
Ray(origin, direction) == [origin |-> origin, direction |-> direction]

RayPoint(ray, t) == VAdd(ray.origin, VScale(t, ray.direction))

(***************************************************************************)
(* Materials (material.rs: trait objects; matenum.rs: the enum).           *)
(***************************************************************************)
RMin(a, b) == IF RLt(b, a) THEN b ELSE a

Lambertian(albedo) == [albedo |-> albedo, kind |-> "Lambertian"]

\* Metal::new of material.rs: fuzz.min(1.0)
MetalNew(albedo, fuzz) ==
    [albedo |-> albedo, kind |-> "Metal", fuzz |-> RMin(fuzz, One)]

\* metal() of matenum.rs: Material::Metal(albedo, fuzz)
MetalEnum(albedo, fuzz) == [albedo |-> albedo, kind |-> "Metal", fuzz |-> fuzz]

Dielectric(ref_idx) == [kind |-> "Dielectric", ref_idx |-> ref_idx]

\* metal() of material.rs boxes Metal::new; metal() of matenum.rs builds the
\* enum value.
MakeMetal(variant, albedo, fuzz) ==
    IF variant = "trait" THEN MetalNew(albedo, fuzz) ELSE MetalEnum(albedo, fuzz)

\* utils::rand(): a value of [0, 1)
RandVals == { Rat(k, RandDen) : k \in 0..(RandDen - 1) }

\* random_in_unit_sphere(): the draws 2 * randvec() - ones the loop accepts
UnitSphereSamples ==
    { q \in { VSub(VScale(I(2), <<r1, r2, r3>>), ones) :
                r1 \in RandVals, r2 \in RandVals, r3 \in RandVals } :
        RLt(norm2(q), One) }

schlick(cosine, ref_idx) ==
    LET r0 == RPowi(RDiv(RSub(One, ref_idx), RAdd(One, ref_idx)), 2)
    IN  RAdd(r0, RMul(RSub(One, r0), RPowi(RSub(One, cosine), 5)))

LambertianScatter(m, r_in, rec, s) ==
    LET point == rec.p
        target == VAdd(VAdd(point, rec.normal), s)
    IN  Some(<<m.albedo, Ray(point, VSub(target, point))>>)

\* A mutant of Forward: a direction along the surface is let through.
ForwardOrAlong(d, normal) == RGe(dot(d, normal), Zero)

\* if scattered.direction().dot(rec.normal()) > 0.0
Forward(d, normal) == RGt(dot(d, normal), Zero)

MetalScatter(m, r_in, rec, s) ==
    LET reflected == reflect(unitize(r_in.direction), rec.normal)
        scattered == Ray(rec.p, VAdd(reflected, VScale(m.fuzz, s)))
    IN  IF Forward(scattered.direction, rec.normal)
        THEN Some(<<m.albedo, scattered>>)
        ELSE None

\* A mutant of FresnelChoice: the ray is always transmitted.
AlwaysRefracted(rnd, reflectance, reflected, refracted) == refracted

\* if utils::rand() < schlick(cosine, ref_idx) { reflected } else { refracted }
FresnelChoice(rnd, reflectance, reflected, refracted) ==
    IF RLt(rnd, reflectance) THEN reflected ELSE refracted

DielectricScatter(m, r_in, rec, rnd) ==
    LET dir == r_in.direction
        dir_length == norm(dir)
        rec_normal == rec.normal
        reflected == reflect(dir, rec_normal)
        ref_idx == m.ref_idx
        exiting == RGt(dot(r_in.direction, rec.normal), Zero)
        outward_normal == IF exiting THEN VNeg(rec_normal) ELSE rec_normal
        ni_over_nt == IF exiting THEN ref_idx ELSE RDiv(One, ref_idx)
        cosine == IF exiting
                  THEN RDiv(RMul(ref_idx, dot(dir, rec_normal)), dir_length)
                  ELSE RDiv(RNeg(dot(dir, rec_normal)), dir_length)
        refracted == refract(r_in.direction, outward_normal, ni_over_nt)
        direction == IF IsSome(refracted)
                     THEN FresnelChoice(rnd, schlick(cosine, m.ref_idx),
                                        reflected, Unwrap(refracted))
                     ELSE reflected
    IN  Some(<<ones, Ray(rec.p, direction)>>)

\* material.scatter(&ray, &rec): the trait's dispatch, the enum's match
Scatter(m, r_in, rec, s, rnd) ==
    CASE m.kind = "Lambertian" -> LambertianScatter(m, r_in, rec, s)
      [] m.kind = "Metal" -> MetalScatter(m, r_in, rec, s)
      [] m.kind = "Dielectric" -> DielectricScatter(m, r_in, rec, rnd)

(***************************************************************************)
(* Sphere and HittableList (shape.rs).                                     *)
(***************************************************************************)
Sphere(center, radius, m) == [mat |-> m, center |-> center, radius |-> radius]

HitRecord(t, p, normal, material) ==
    [t |-> t, p |-> p, normal |-> normal, material |-> material]

\* A mutant of DiscAccepts: a discriminant of zero is accepted.
DiscAcceptsZero(disc) == RGe(disc, Zero)

\* if disc > 0.0
DiscAccepts(disc) == RGt(disc, Zero)

\* A mutant of InWindow: the window taken as closed.
InWindowClosed(temp, tmin, tmax) == RLe(temp, tmax) /\ RGe(temp, tmin)

\* if temp < t_max && temp > t_min
InWindow(temp, tmin, tmax) == RLt(temp, tmax) /\ RGt(temp, tmin)

SphereRecord(sph, ray, temp) ==
    LET p == RayPoint(ray, temp)
    IN  HitRecord(temp, p, VDivS(VSub(p, sph.center), sph.radius), sph.mat)

SphereHit(sph, ray, tmin, tmax) ==
    LET oc == VSub(ray.origin, sph.center)
        a == dot(ray.direction, ray.direction)
        b == dot(oc, ray.direction)
        c == RSub(dot(oc, oc), RPowi(sph.radius, 2))
        disc == RSub(RPowi(b, 2), RMul(a, c))
    IN  IF DiscAccepts(disc)
        THEN LET temp == RDiv(RSub(RNeg(b), RSqrt(disc)), a)
             IN  IF InWindow(temp, tmin, tmax)
                 THEN Some(SphereRecord(sph, ray, temp))
                 ELSE LET temp2 == RDiv(RAdd(RNeg(b), RSqrt(disc)), a)
                      IN  IF InWindow(temp2, tmin, tmax)
                          THEN Some(SphereRecord(sph, ray, temp2))
                          ELSE None
        ELSE None

\* A mutant of ShrinkWindow: the upper bound is never lowered.
ShrinkNever(closest_so_far, temp_rec) == closest_so_far

\* closest_so_far = temp_rec.t()
ShrinkWindow(closest_so_far, temp_rec) == temp_rec.t

\* The loop of HittableList::hit from item i on, with the loop's two
\* mutable locals.
RECURSIVE ListHitFrom(_, _, _, _, _, _)
ListHitFrom(items, i, ray, tmin, closest_so_far, rec) ==
    IF i > Len(items) THEN rec
    ELSE LET temp == SphereHit(items[i], ray, tmin, closest_so_far)
         IN  IF IsSome(temp)
             THEN ListHitFrom(items, i + 1, ray, tmin,
                              ShrinkWindow(closest_so_far, Unwrap(temp)), temp)
             ELSE ListHitFrom(items, i + 1, ray, tmin, closest_so_far, rec)

ListHit(items, ray, tmin, tmax) == ListHitFrom(items, 1, ray, tmin, tmax, None)

(***************************************************************************)
(* The intersection model: a scene, a ray and a window are drawn, then     *)
(* Sphere::hit is applied to one sphere or HittableList::hit to the list.  *)
(***************************************************************************)
Grey == Lambertian(<<Rat(1, 2), Rat(1, 2), Rat(1, 2)>>)

Mirror == MetalNew(ones, Zero)

Glass == Dielectric(Rat(3, 2))

\* Spheres on and beside the z axis: two whose near sides coincide at z = -2,
\* one behind them, one tangent to the axis, one around the origin.
HitSpheres ==
    { Sphere(IV(0, 0, -3), I(1), Grey),
      Sphere(IV(0, 0, -4), I(2), Mirror),
      Sphere(IV(0, 0, -8), I(2), Glass),
      Sphere(IV(0, 1, -3), I(1), Mirror),
      Sphere(IV(0, 0, 0), I(2), Glass) }

HitRays ==
    { Ray(IV(0, 0, 0), IV(0, 0, -1)),
      Ray(IV(0, 0, 0), IV(0, 0, -2)),
      Ray(IV(0, 0, 0), IV(0, 1, -4)),
      Ray(IV(0, 0, 1), IV(0, 1, -3)) }

\* (t_min, t_max); the first is the window of color().
HitWindows ==
    { <<Rat(1, 1000), F64Max>>, <<Zero, I(2)>>, <<I(1), I(6)>>, <<I(3), I(9)>> }

SeqsUpTo(S, n) == UNION {[1..k -> S] : k \in 0..n}

InitGeom ==
    /\ geom \in [pc : {"ready"}, ray : HitRays, rec : {None},
                 items : SeqsUpTo(HitSpheres, MaxSpheres),
                 window : HitWindows, idx : {0}, srec : {None}]
    /\ render = Idle /\ mat = Idle /\ integ = Idle /\ quant = Idle
    /\ RestIdle

\* world.hit(ray, t_min, t_max) on the HittableList
HitWorld ==
    /\ geom.pc = "ready"
    /\ geom' = [geom EXCEPT !.pc = "hit",
                    !.rec = ListHit(geom.items, geom.ray,
                                    geom.window[1], geom.window[2])]
    /\ UNCHANGED <<render, mat, integ, quant, rest>>

\* item.hit(ray, t_min, t_max) on the i-th sphere alone
HitSphere(i) ==
    /\ geom.pc = "ready"
    /\ i \in 1..Len(geom.items)
    /\ geom' = [geom EXCEPT !.pc = "sphere", !.idx = i,
                    !.srec = SphereHit(geom.items[i], geom.ray,
                                       geom.window[1], geom.window[2])]
    /\ UNCHANGED <<render, mat, integ, quant, rest>>

NextGeom == HitWorld \/ \E i \in 1..MaxSpheres : HitSphere(i)

SpecGeom == InitGeom /\ [][NextGeom]_vars

\* The t values the spheres of the list return one by one for the window.
OwnTs(items, ray, window) ==
    { Unwrap(SphereHit(items[i], ray, window[1], window[2])).t :
        i \in { j \in 1..Len(items) :
                  IsSome(SphereHit(items[j], ray, window[1], window[2])) } }

Permuted(items, perm) == [i \in 1..Len(items) |-> items[perm[i]]]

HitT(o) == IF IsSome(o) THEN Some(Unwrap(o).t) ELSE None

\* C2: HittableList::hit returns None exactly when no sphere of the list
\* accepts a t in the window on its own; otherwise the t of its record is
\* the least of the t values the spheres return one by one for the original
\* window, and every reordering of the list gives the same t.
C2_ListHitIsNearest ==
    geom.pc = "hit" =>
        LET ts == OwnTs(geom.items, geom.ray, geom.window)
        IN  /\ (geom.rec = None) <=> (ts = {})
            /\ IsSome(geom.rec) =>
                   /\ Unwrap(geom.rec).t \in ts
                   /\ \A t \in ts : RLe(Unwrap(geom.rec).t, t)
            /\ \A perm \in Permutations(1..Len(geom.items)) :
                   HitT(ListHit(Permuted(geom.items, perm), geom.ray,
                                geom.window[1], geom.window[2]))
                       = HitT(geom.rec)

\* C2's case: the list's first sphere is hit farther away than its second,
\* and the list returns the nearer t.
C2_Witness ==
    /\ geom.pc = "hit"
    /\ Len(geom.items) = 2
    /\ LET h1 == SphereHit(geom.items[1], geom.ray, geom.window[1], geom.window[2])
           h2 == SphereHit(geom.items[2], geom.ray, geom.window[1], geom.window[2])
       IN  /\ IsSome(h1) /\ IsSome(h2) /\ IsSome(geom.rec)
           /\ RLt(Unwrap(h2).t, Unwrap(h1).t)
           /\ Unwrap(geom.rec).t = Unwrap(h2).t

\* The quantities of the sphere test, written out from the ray and sphere.
C3_a == dot(geom.ray.direction, geom.ray.direction)

C3_oc == VSub(geom.ray.origin, geom.items[geom.idx].center)

C3_b == dot(C3_oc, geom.ray.direction)

C3_c == RSub(dot(C3_oc, C3_oc),
             RMul(geom.items[geom.idx].radius, geom.items[geom.idx].radius))

C3_disc == RSub(RMul(C3_b, C3_b), RMul(C3_a, C3_c))

C3_small == RDiv(RSub(RNeg(C3_b), RSqrt(C3_disc)), C3_a)

C3_large == RDiv(RAdd(RNeg(C3_b), RSqrt(C3_disc)), C3_a)

C3_Strictly(t) == RLt(geom.window[1], t) /\ RLt(t, geom.window[2])

\* C3: Sphere::hit returns a record only when b^2 - a*c > 0 (a = dir.dir,
\* b = oc.dir, c = oc.oc - radius^2); its t lies strictly inside the window;
\* t is the smaller root when that root is inside the window, else the
\* larger root when that one is, else there is no record; the point is
\* ray.point(t), the normal (point - center)/radius, the material the
\* sphere's.
C3_SphereHit ==
    geom.pc = "sphere" =>
        LET sph == geom.items[geom.idx]
        IN  /\ IsSome(geom.srec) =>
                 LET r == Unwrap(geom.srec)
                 IN  /\ RLt(Zero, C3_disc)
                     /\ C3_Strictly(r.t)
                     /\ IF C3_Strictly(C3_small) THEN r.t = C3_small
                        ELSE C3_Strictly(C3_large) /\ r.t = C3_large
                     /\ r.p = VAdd(geom.ray.origin, VScale(r.t, geom.ray.direction))
                     /\ r.normal = VDivS(VSub(r.p, sph.center), sph.radius)
                     /\ r.material = sph.mat
            /\ (geom.srec = None) =>
                 \/ RLe(C3_disc, Zero)
                 \/ ~C3_Strictly(C3_small) /\ ~C3_Strictly(C3_large)

\* C3's case: a direction that is not unit, the smaller root outside the
\* window and the larger root returned.
C3_Witness ==
    /\ geom.pc = "sphere"
    /\ IsSome(geom.srec)
    /\ C3_a # One
    /\ ~C3_Strictly(C3_small)
    /\ Unwrap(geom.srec).t = C3_large
    /\ C3_large # C3_small

(***************************************************************************)
(* The material model: a material is built by the constructors of          *)
(* material.rs ("trait") or matenum.rs ("enum"), then scatters one ray.    *)
(***************************************************************************)
FuzzArgs == { Rat(-1, 2), Zero, Rat(1, 2), One, I(2) }

Albedos == { <<Rat(7, 10), Rat(3, 5), Rat(1, 2)>> }

RefIdxs == { Rat(3, 2) }

\* Incoming directions: onto the surface (straight, not unit, slanted),
\* along it, and out of it (straight, and slanted beyond the critical angle).
InDirections ==
    { IV(0, -1, 0), IV(0, -2, 0), IV(3, -4, 0), IV(1, 0, 0), IV(0, 1, 0),
      IV(4, 3, 0) }

HitNormals == { IV(0, 1, 0), <<Rat(3, 5), Rat(4, 5), Zero>> }

HitPoints == { IV(1, 2, 3) }

InitMat ==
    /\ mat \in [pc : {"new"}, s : {zeros}, variant : {"trait", "enum"},
                r_in : { Ray(IV(1, 4, 3), d) : d \in InDirections },
                rec : { HitRecord(One, pt, n, None) :
                          pt \in HitPoints, n \in HitNormals },
                rnd : {Zero}, material : {None}, out : {None}]
    /\ render = Idle /\ geom = Idle /\ integ = Idle /\ quant = Idle
    /\ RestIdle

\* the state once material m is built and a hit record refers to it
Made(m) ==
    [mat EXCEPT !.pc = "made", !.material = m,
                !.rec = [mat.rec EXCEPT !.material = m]]

\* lambertian(albedo)
NewLambertian ==
    /\ mat.pc = "new"
    /\ \E albedo \in Albedos : mat' = Made(Lambertian(albedo))
    /\ UNCHANGED <<render, geom, integ, quant, rest>>

\* metal(albedo, fuzz) of material.rs or of matenum.rs
NewMetal ==
    /\ mat.pc = "new"
    /\ \E albedo \in Albedos, fuzz \in FuzzArgs :
         mat' = Made(MakeMetal(mat.variant, albedo, fuzz))
    /\ UNCHANGED <<render, geom, integ, quant, rest>>

\* dielectric(ref_idx)
NewDielectric ==
    /\ mat.pc = "new"
    /\ \E ref_idx \in RefIdxs : mat' = Made(Dielectric(ref_idx))
    /\ UNCHANGED <<render, geom, integ, quant, rest>>

\* rec.material.scatter(&ray, &rec), with the draws it makes
DoScatter ==
    /\ mat.pc = "made"
    /\ \E s \in UnitSphereSamples, rnd \in RandVals :
        mat' = [mat EXCEPT !.pc = "scattered", !.s = s, !.rnd = rnd,
                    !.out = Scatter(mat.material, mat.r_in, mat.rec, s, rnd)]
    /\ UNCHANGED <<render, geom, integ, quant, rest>>

NextMat == NewLambertian \/ NewMetal \/ NewDielectric \/ DoScatter

SpecMat == InitMat /\ [][NextMat]_vars

\* C8: every Metal material carries a fuzz of at most 1.0, whichever
\* constructor built it and whatever fuzz was passed.  (Stated as claimed;
\* metal() of matenum.rs stores the argument as it is.)
C8_FuzzAtMostOne ==
    (mat.pc \in {"made", "scattered"} /\ mat.material.kind = "Metal") =>
        RLe(mat.material.fuzz, One)

\* The scattered direction of a Metal, written out from the inputs.
C9_d ==
    VAdd(reflect(unitize(mat.r_in.direction), mat.rec.normal),
         VScale(mat.material.fuzz, mat.s))

\* C9: Metal scatter returns Some((albedo, Ray(hit point, d))) exactly when
\* d . normal > 0, for d = reflect(unit(incoming), normal) + fuzz * s, and
\* None whenever d . normal <= 0, zero included.
C9_MetalScatter ==
    (mat.pc = "scattered" /\ mat.material.kind = "Metal") =>
        IF RLt(Zero, dot(C9_d, mat.rec.normal))
        THEN mat.out = Some(<<mat.material.albedo, Ray(mat.rec.p, C9_d)>>)
        ELSE mat.out = None

\* C9's case: the scattered direction lies exactly along the surface and the
\* ray is absorbed.
C9_Witness ==
    /\ mat.pc = "scattered"
    /\ mat.material.kind = "Metal"
    /\ dot(C9_d, mat.rec.normal) = Zero
    /\ mat.out = None

\* The quantities of the Dielectric scatter, written out from the inputs.
C10_dn == dot(mat.r_in.direction, mat.rec.normal)

C10_exiting == RLt(Zero, C10_dn)

C10_refracted ==
    IF C10_exiting
    THEN refract(mat.r_in.direction, VNeg(mat.rec.normal), mat.material.ref_idx)
    ELSE refract(mat.r_in.direction, mat.rec.normal,
                 RDiv(One, mat.material.ref_idx))

C10_cosine ==
    IF C10_exiting
    THEN RDiv(RMul(mat.material.ref_idx, C10_dn), norm(mat.r_in.direction))
    ELSE RDiv(RNeg(C10_dn), norm(mat.r_in.direction))

C10_r0 ==
    LET q == RDiv(RSub(One, mat.material.ref_idx), RAdd(One, mat.material.ref_idx))
    IN  RMul(q, q)

C10_reflectance ==
    LET k == RSub(One, C10_cosine)
    IN  RAdd(C10_r0,
             RMul(RSub(One, C10_r0), RMul(k, RMul(k, RMul(k, RMul(k, k))))))

C10_reflected == reflect(mat.r_in.direction, mat.rec.normal)

\* C10: Dielectric scatter always returns Some, with attenuation (1,1,1) and
\* a ray from the hit point; under total internal reflection the direction
\* is the reflection whatever rand() gives; otherwise it is the reflection
\* exactly when rand() is below the Schlick reflectance, and the refracted
\* vector if not; the normal is negated with ni_over_nt = n when
\* direction . normal > 0, and kept with ni_over_nt = 1/n otherwise.
C10_DielectricScatter ==
    (mat.pc = "scattered" /\ mat.material.kind = "Dielectric") =>
        /\ IsSome(mat.out)
        /\ Unwrap(mat.out)[1] = IV(1, 1, 1)
        /\ Unwrap(mat.out)[2].origin = mat.rec.p
        /\ IF C10_refracted = None
           THEN Unwrap(mat.out)[2].direction = C10_reflected
           ELSE IF RLt(mat.rnd, C10_reflectance)
                THEN Unwrap(mat.out)[2].direction = C10_reflected
                ELSE Unwrap(mat.out)[2].direction = Unwrap(C10_refracted)

\* C10's case: a ray leaving the glass that could be transmitted, and is
\* reflected because the draw is below the reflectance.
C10_Witness ==
    /\ mat.pc = "scattered"
    /\ mat.material.kind = "Dielectric"
    /\ C10_exiting
    /\ IsSome(C10_refracted)
    /\ RLt(mat.rnd, C10_reflectance)
    /\ Unwrap(mat.out)[2].direction = C10_reflected
    /\ C10_reflected # Unwrap(C10_refracted)

\* A further case of C10: total internal reflection.
C10_TotalInternal ==
    /\ mat.pc = "scattered"
    /\ mat.material.kind = "Dielectric"
    /\ C10_refracted = None

(***************************************************************************)
(* The quantisation model: a pixel's sample sum is averaged, gamma         *)
(* corrected and converted to three 8-bit channels, by ColorVec3::from     *)
(* (main.rs) or by ColorVec::r/g/b of vec3.rs (bin/raytracer.rs).          *)
(***************************************************************************)
\* f64::powf for the exponents 1/gamma of the modelled gammas: 1, 2 (the
\* square) and 1/2 (the square root).
RPowf(c, e) ==
    CASE e = One -> c
      [] e = I(2) -> RMul(c, c)
      [] e = Rat(1, 2) -> RSqrt(c)

powf(v, e) == <<RPowf(v[1], e), RPowf(v[2], e), RPowf(v[3], e)>>

\* A mutant of AsU8: the integer part reduced modulo 256.
AsU8Wrapping(x) == RFloor(x) % 256

\* `value as u8` on an f64 (Rust 1.45 and later): the value truncated
\* towards zero and saturated to 0..=255.
AsU8(x) ==
    IF RLt(x, Zero) THEN 0
    ELSE IF RGe(x, I(255)) THEN 255 ELSE RFloor(x)

\* ColorVec3::from(vec): (vec * f64::from(u8::MAX)).map(|value| value as u8)
ColorVec3From(v) ==
    <<AsU8(RMul(v[1], I(255))), AsU8(RMul(v[2], I(255))), AsU8(RMul(v[3], I(255)))>>

\* ColorVec::r, g, b of vec3.rs: (255.0 * self.x) as u8, under one outcome
\* of the cast
ColorVecRgb(v, cast) ==
    IF cast = "saturate"
    THEN <<AsU8(RMul(I(255), v[1])), AsU8(RMul(I(255), v[2])),
           AsU8(RMul(I(255), v[3]))>>
    ELSE <<AsU8Wrapping(RMul(I(255), v[1])), AsU8Wrapping(RMul(I(255), v[2])),
           AsU8Wrapping(RMul(I(255), v[3]))>>

\* .sum::<Vec3>().div(f64::from(nsamples)).powf(gamma), gamma = gamma.recip()
Develop(sum, nsamples, gamma) == powf(VDivS(sum, I(nsamples)), RDiv(One, gamma))

ChannelSums == { Zero, Rat(1, 2), One, I(2), I(3), I(4), I(6) }

Gammas == { Rat(1, 2), One, I(2) }

InitQuant ==
    /\ quant \in [pc : {"sampled"}, cast : {"none"},
                  sum : ChannelSums \X ChannelSums \X ChannelSums,
                  nsamples : 1..MaxSamples, gamma : Gammas,
                  prog : {"main", "raytracer"},
                  col : {zeros}, rgb : {<<0, 0, 0>>}]
    /\ render = Idle /\ geom = Idle /\ mat = Idle /\ integ = Idle
    /\ RestIdle

\* main.rs: ColorVec3::from(col).into_array()
EmitMain ==
    /\ quant.pc = "sampled" /\ quant.prog = "main"
    /\ LET col == Develop(quant.sum, quant.nsamples, quant.gamma)
       IN  quant' = [quant EXCEPT !.pc = "emitted", !.col = col,
                         !.rgb = ColorVec3From(col)]
    /\ UNCHANGED <<render, geom, mat, integ, rest>>

\* bin/raytracer.rs: (col.r(), col.g(), col.b())
EmitRaytracer ==
    /\ quant.pc = "sampled" /\ quant.prog = "raytracer"
    /\ LET col == Develop(quant.sum, quant.nsamples, quant.gamma)
       IN  \E cast \in {"saturate", "wrap"} :
             quant' = [quant EXCEPT !.pc = "emitted", !.col = col, !.cast = cast,
                           !.rgb = ColorVecRgb(col, cast)]
    /\ UNCHANGED <<render, geom, mat, integ, rest>>

NextQuant == EmitMain \/ EmitRaytracer

SpecQuant == InitQuant /\ [][NextQuant]_vars

Min(a, b) == IF a < b THEN a ELSE b

\* C6: for a non-negative channel c after averaging and gamma correction,
\* ColorVec3::from emits min(255, floor(255 * c)): truncated, not rounded,
\* and saturated, not wrapped; an averaged channel of exactly 1 gives 255
\* and one of exactly 0 gives 0, for every gamma.
C6_Quantise ==
    (quant.pc = "emitted" /\ quant.prog = "main") =>
        \A k \in 1..3 :
            /\ quant.rgb[k] = Min(255, (255 * quant.col[k][1]) \div quant.col[k][2])
            /\ RDiv(quant.sum[k], I(quant.nsamples)) = One => quant.rgb[k] = 255
            /\ RDiv(quant.sum[k], I(quant.nsamples)) = Zero => quant.rgb[k] = 0

\* C6's case: one channel whose 255 * c is not an integer and is cut down,
\* one channel above the range that is emitted as 255, under a gamma that is
\* not 1.
C6_Witness ==
    /\ quant.pc = "emitted" /\ quant.prog = "main"
    /\ quant.gamma # One
    /\ RMul(I(255), quant.col[1])[2] # 1
    /\ quant.rgb[1] < 255
    /\ RLt(One, quant.col[2])
    /\ quant.rgb[2] = 255

\* C7: ColorVec::r/g/b of a Vec3 whose channel c makes 255 * c an integer
\* above 255 returns that integer reduced to 8 bits as an integer cast does,
\* and a channel of 1 gives 255, as test_color_vec of vec3.rs asserts.
\* (Stated as claimed; the float cast of the code saturates.)
C7_WrapsLikeIntegerCast ==
    (quant.pc = "emitted" /\ quant.prog = "raytracer") =>
        \A k \in 1..3 :
            LET x == RMul(I(255), quant.col[k])
            IN  (x[2] = 1 /\ x[1] >= 255) => quant.rgb[k] = x[1] % 256

(***************************************************************************)
(* The integrator model: color(ray, world, 0) of main.rs and of            *)
(* bin/raytracer.rs, one step per invocation and one per return.  `stack`  *)
(* holds the attenuations of the invocations waiting for their recursive   *)
(* call; `path`, `scatters` and `terminal` record what happened along the  *)
(* path.                                                                   *)
(***************************************************************************)
MaxDepth == 50

\* A mutant of DepthBelowLimit: one more level of recursion.
DepthAtMostLimit(depth) == depth <= MaxDepth

\* if depth < 50
DepthBelowLimit(depth) == depth < MaxDepth

\* A mutant of Attenuate: the attenuation is not applied.
AttenuateDropped(attenuation, inner) == inner

\* attenuation * color(scattered, world, depth + 1)
Attenuate(attenuation, inner) == VMul(attenuation, inner)

\* Vec3::ones().lerp(vec3![0.5, 0.7, 1.0], 0.5 * (unit.y() + 1.0))
Sky(ray) ==
    lerp(ones, <<Rat(1, 2), Rat(7, 10), One>>,
         RMul(Rat(1, 2), RAdd(unitize(ray.direction)[2], One)))

\* world.hit(ray, 0.001, f64::MAX)
WorldHit(world, ray) == ListHit(world, ray, Rat(1, 1000), F64Max)

Down == Ray(IV(0, 0, 0), IV(0, 0, -1))

\* The draws one call of scatter makes: random_in_unit_sphere() by
\* Lambertian and Metal, utils::rand() by Dielectric.
ScatterDraws(m) ==
    IF m.kind = "Dielectric"
    THEN { <<zeros, rnd>> : rnd \in RandVals }
    ELSE { <<s, Zero>> : s \in UnitSphereSamples }

\* rec.material.scatter(&ray, &rec), for every draw it can make
ScatterResults(ray, rec) ==
    { Scatter(rec.material, ray, rec, dr[1], dr[2]) :
        dr \in ScatterDraws(rec.material) }

\* The worlds and camera rays of the integrator model: no sphere; two fuzz-0
\* mirrors facing each other (a cavity the ray never leaves); one fuzzy
\* metal sphere; a metal sphere of the enum, fuzz 2; a diffuse sphere; a
\* glass sphere; a tinted mirror that sends the ray to a second tinted
\* mirror, back, and out to the sky.
IntegCases ==
    { <<<<>>, Down>>,
      <<<<>>, Ray(IV(0, 0, 0), IV(0, 1, 0))>>,
      <<<<>>, Ray(IV(0, 0, 0), IV(3, 4, 0))>>,
      <<<<Sphere(IV(0, 0, -3), I(1), MetalNew(ones, Zero)),
          Sphere(IV(0, 0, 3), I(1), MetalNew(IV(1, 0, 1), Zero))>>, Down>>,
      <<<<Sphere(IV(0, 0, -3), I(1),
                 MetalNew(<<Rat(7, 10), Rat(3, 5), Rat(1, 2)>>, Rat(1, 2)))>>,
        Down>>,
      <<<<Sphere(IV(0, 0, -3), I(1), MetalEnum(ones, I(2)))>>, Down>>,
      <<<<Sphere(IV(0, 0, -3), I(1),
                 Lambertian(<<Rat(1, 2), One, Zero>>))>>, Down>>,
      <<<<Sphere(IV(0, 0, -3), I(1), Glass)>>, Down>>,
      <<<<Sphere(<<Rat(3, 4), Zero, I(-3)>>, Rat(5, 4),
                 MetalNew(<<Rat(1, 2), One, Rat(1, 2)>>, Zero)),
          Sphere(<<Rat(-24, 5), Zero, Rat(-3, 5)>>, I(1),
                 MetalNew(<<One, Rat(1, 2), Rat(1, 5)>>, Zero))>>, Down>> }

InitInteg ==
    /\ \E c \in IntegCases :
         integ = [pc |-> "call", ray |-> c[2], depth |-> 0, world |-> c[1],
                  stack |-> <<>>, ret |-> zeros,
                  path |-> <<>>, scatters |-> 0, terminal |-> "none"]
    /\ render = Idle /\ geom = Idle /\ mat = Idle /\ quant = Idle
    /\ RestIdle

\* color: the world is missed, the sky is returned
ColorSky ==
    /\ integ.pc = "call"
    /\ WorldHit(integ.world, integ.ray) = None
    /\ integ' = [integ EXCEPT !.pc = "return", !.ret = Sky(integ.ray),
                     !.terminal = "sky"]
    /\ UNCHANGED <<render, geom, mat, quant, rest>>

\* color: a surface is hit and scatter returns None
ColorAbsorbed ==
    /\ integ.pc = "call"
    /\ \E hit \in {WorldHit(integ.world, integ.ray)} :
         /\ IsSome(hit)
         /\ \E sc \in ScatterResults(integ.ray, Unwrap(hit)) :
              /\ sc = None
              /\ integ' = [integ EXCEPT !.pc = "return", !.ret = zeros,
                               !.terminal = "absorbed"]
    /\ UNCHANGED <<render, geom, mat, quant, rest>>

\* color: scatter returns Some and depth < 50
ColorRecurse ==
    /\ integ.pc = "call"
    /\ DepthBelowLimit(integ.depth)
    /\ \E hit \in {WorldHit(integ.world, integ.ray)} :
         /\ IsSome(hit)
         /\ \E sc \in ScatterResults(integ.ray, Unwrap(hit)) :
              /\ IsSome(sc)
              /\ integ' = [integ EXCEPT !.ray = Unwrap(sc)[2],
                               !.depth = integ.depth + 1,
                               !.stack = Append(integ.stack, Unwrap(sc)[1]),
                               !.path = Append(integ.path, Unwrap(sc)[1]),
                               !.scatters = integ.scatters + 1]
    /\ UNCHANGED <<render, geom, mat, quant, rest>>

\* color: scatter returns Some and depth is not below 50
ColorCutoff ==
    /\ integ.pc = "call"
    /\ ~DepthBelowLimit(integ.depth)
    /\ \E hit \in {WorldHit(integ.world, integ.ray)} :
         /\ IsSome(hit)
         /\ \E sc \in ScatterResults(integ.ray, Unwrap(hit)) :
              /\ IsSome(sc)
              /\ integ' = [integ EXCEPT !.pc = "return", !.ret = zeros,
                               !.scatters = integ.scatters + 1,
                               !.terminal = "cutoff"]
    /\ UNCHANGED <<render, geom, mat, quant, rest>>

\* an invocation returns to the one that made it, which multiplies
ColorReturn ==
    /\ integ.pc = "return"
    /\ integ.stack # <<>>
    /\ integ' = [integ EXCEPT
                     !.ret = Attenuate(integ.stack[Len(integ.stack)], integ.ret),
                     !.stack = SubSeq(integ.stack, 1, Len(integ.stack) - 1),
                     !.depth = integ.depth - 1]
    /\ UNCHANGED <<render, geom, mat, quant, rest>>

\* color(ray, world, 0) itself returns
ColorDone ==
    /\ integ.pc = "return"
    /\ integ.stack = <<>>
    /\ integ' = [integ EXCEPT !.pc = "done"]
    /\ UNCHANGED <<render, geom, mat, quant, rest>>

NextInteg ==
    ColorSky \/ ColorAbsorbed \/ ColorRecurse \/ ColorCutoff \/ ColorReturn
        \/ ColorDone

\* Weak fairness of the steps of an invocation.  The if/else of color is
\* total, so such a step is enabled exactly when integ.pc = "call", and
\* WF_vars of it is written with that enabling condition.
CallFair ==
    \/ []<>(integ.pc # "call")
    \/ []<><<ColorSky \/ ColorAbsorbed \/ ColorRecurse \/ ColorCutoff>>_vars

\* The recursion is sequential code: a step that can be taken is taken.
SpecInteg ==
    /\ InitInteg /\ [][NextInteg]_vars
    /\ CallFair /\ WF_vars(ColorReturn) /\ WF_vars(ColorDone)

\* C4: color(ray, world, 0) terminates; color is invoked only with depths
\* 0, 1, ..., 50; and a path whose scatter still succeeds at depth 50
\* contributes black.
C4_Terminates ==
    /\ [](integ.pc = "call" => integ.depth \in 0..MaxDepth)
    /\ <>(integ.pc = "done")
    /\ [](integ.terminal = "cutoff" => integ.ret = zeros)

\* The fuzz-0 metal cavity: 51 scatters succeed, the last one at depth 50,
\* and color(ray, world, 0) has returned black.
C4_Witness ==
    /\ integ.pc = "done"
    /\ Len(integ.world) = 2
    /\ \A i \in 1..2 : /\ integ.world[i].mat.kind = "Metal"
                       /\ integ.world[i].mat.fuzz = Zero
    /\ integ.terminal = "cutoff"
    /\ integ.scatters = MaxDepth + 1
    /\ integ.ret = zeros

\* The loop of C5: the accumulator is multiplied by each attenuation in
\* the order the path meets them (`next` is the accumulator's value when
\* the next iteration starts).
RECURSIVE LoopAccumulate(_, _, _)
LoopAccumulate(acc, path, i) ==
    IF i > Len(path) THEN acc
    ELSE CHOOSE r \in { LoopAccumulate(next, path, i + 1) :
                            next \in {VMul(acc, path[i])} } : TRUE

\* The terminal value of C5: the sky gradient of the last ray when it
\* misses the world, black otherwise.
C5_TerminalValue ==
    IF WorldHit(integ.world, integ.ray) = None THEN Sky(integ.ray) ELSE zeros

\* C5: color(ray, world, 0) equals the product of the attenuations of the
\* successive scatters of the path times the terminal value (sky when the
\* last ray misses, black when a scatter returns None or succeeds at depth
\* 50): the value of a loop that accumulates the attenuation product.
C5_LoopEquivalence ==
    integ.pc = "done" =>
        /\ integ.ret = VMul(LoopAccumulate(ones, integ.path, 1),
                            C5_TerminalValue)
        /\ (integ.terminal = "sky")
               <=> (WorldHit(integ.world, integ.ray) = None)
        /\ integ.terminal \in {"sky", "absorbed", "cutoff"}
        /\ (integ.terminal = "cutoff") => Len(integ.path) = MaxDepth

\* Three scatters off tinted mirrors, then the sky: the value returned is
\* the tinted sky, no component of it zero.
C5_Witness ==
    /\ integ.pc = "done"
    /\ integ.terminal = "sky"
    /\ Len(integ.path) = 3
    /\ \A i \in 1..3 : integ.path[i] # ones
    /\ integ.path[1] # integ.path[2]
    /\ \A k \in 1..3 : RGt(integ.ret[k], Zero)
    /\ integ.ret # Sky(integ.ray)

(***************************************************************************)
(* The render model: main of main.rs and of bin/raytracer.rs from the      *)
(* parallel iteration over the rows to the last pixel line written.  A     *)
(* pixel's colour is stood for by its tag <<y, x>>.  `running` are the     *)
(* rows some worker is computing, `finished` the rows in the order their   *)
(* workers completed them, `written` the pixel lines after the header.     *)
(***************************************************************************)
MaxW == 3

MaxH == 3

NWorkers == 2

\* A width for which the keys of a two-row image leave the range of u16.
WideW == 2^15 + 1

\* main.rs is built with or without overflow checks; bin/raytracer.rs
\* computes in usize.
U16Range == 2^16

\* y * width + x leaves the type (image_dims: Vec<u16> in main.rs)
KeyOverflows(prog, width, y, x) ==
    prog = "main" /\ y * width + x >= U16Range

\* y * width + x as the build without overflow checks computes it
PixelKey(prog, width, y, x) ==
    IF prog = "main" THEN (y * width + x) % U16Range ELSE y * width + x

\* The row a worker builds: (key, tag) for x in 0..width, in that order.
RowPixels(prog, width, y) ==
    [ i \in 1..width |-> <<PixelKey(prog, width, y, i - 1), y, i - 1>> ]

\* .collect::<Vec<_>>(): rayon collects in the order of the iteration, row
\* after row, whatever the order the rows were computed in.
Collected(prog, width, height) ==
    [ k \in 1..(width * height) |->
        RowPixels(prog, width, (k - 1) \div width)[((k - 1) % width) + 1] ]

\* The place of an element in the collected vector.
Place(width, e) == e[2] * width + e[3]

\* left.cmp(right) on the keys; `ties` is what the sort does with equal
\* keys: sort_by keeps their order, sort_unstable_by may not.
KeyBefore(width, ties, a, b) ==
    \/ a[1] < b[1]
    \/ /\ a[1] = b[1]
       /\ IF ties = "kept" THEN Place(width, a) < Place(width, b)
          ELSE Place(width, a) > Place(width, b)

TieOutcomes(prog) == IF prog = "main" THEN {"kept", "reversed"} ELSE {"kept"}

\* rows.sort_unstable_by(..) of main.rs, rows.sort_by(..) of raytracer.rs
SortedRows(prog, width, height, ties) ==
    SortSeq(Collected(prog, width, height),
            LAMBDA a, b : KeyBefore(width, ties, a, b))

\* for (..) in rows { writeln!(file, "{} {} {}", r, g, b) }
PixelLines(rows) == [ k \in 1..Len(rows) |-> <<rows[k][2], rows[k][3]>> ]

ImageDims ==
    ((1..MaxW) \X (1..MaxH)) \cup {<<WideW, 2>>}

InitRender ==
    /\ \E prog \in {"main", "raytracer"}, build \in {"debug", "release"},
          dims \in ImageDims :
         render = [pc |-> "rendering", prog |-> prog,
                   width |-> dims[1], height |-> dims[2], build |-> build,
                   running |-> {}, finished |-> <<>>, written |-> <<>>]
    /\ geom = Idle /\ mat = Idle /\ integ = Idle /\ quant = Idle
    /\ RestIdle

Rows == 0..(render.height - 1)

FinishedRows == { render.finished[i] : i \in 1..Len(render.finished) }

\* a worker takes a row of (0..height).into_par_iter()
StartRow(y) ==
    /\ render.pc = "rendering"
    /\ y \in Rows \ (render.running \cup FinishedRows)
    /\ Cardinality(render.running) < NWorkers
    /\ render' = [render EXCEPT !.running = render.running \cup {y}]
    /\ UNCHANGED <<geom, mat, integ, quant, rest>>

\* the worker of row y pushes its last pixel and returns the row
FinishRow(y) ==
    /\ render.pc = "rendering"
    /\ y \in render.running
    /\ ~(render.build = "debug"
           /\ KeyOverflows(render.prog, render.width, y, render.width - 1))
    /\ render' = [render EXCEPT !.running = render.running \ {y},
                      !.finished = Append(render.finished, y)]
    /\ UNCHANGED <<geom, mat, integ, quant, rest>>

\* y * width + x overflows in a build with overflow checks: the worker
\* panics, the panic reaches main, and no pixel line is written
PanicRow(y) ==
    /\ render.pc = "rendering"
    /\ y \in render.running
    /\ render.build = "debug"
    /\ KeyOverflows(render.prog, render.width, y, render.width - 1)
    /\ render' = [render EXCEPT !.pc = "panicked", !.running = {}]
    /\ UNCHANGED <<geom, mat, integ, quant, rest>>

\* every row is in: collect, sort by key, write the pixel lines
WriteImage ==
    /\ render.pc = "rendering"
    /\ FinishedRows = Rows
    /\ \E ties \in TieOutcomes(render.prog) :
         render' = [render EXCEPT !.pc = "written",
                        !.written = PixelLines(SortedRows(render.prog,
                                        render.width, render.height, ties))]
    /\ UNCHANGED <<geom, mat, integ, quant, rest>>

NextRender ==
    \/ \E y \in 0..(MaxH - 1) : StartRow(y) \/ FinishRow(y) \/ PanicRow(y)
    \/ WriteImage

SpecRender == InitRender /\ [][NextRender]_vars

\* C1: when the program ends, the pixel lines after the header are exactly
\* W * H in number and line k (from 0) is the colour of the pixel in row
\* k div W and column k mod W, whatever the order the workers finished in.
\* (Stated as claimed; the u16 key of main.rs overflows for W * H > 65536.)
C1_RowMajor ==
    render.pc \in {"written", "panicked"} =>
        /\ Len(render.written) = render.width * render.height
        /\ \A k \in 0..(render.width * render.height - 1) :
             render.written[k + 1] = <<k \div render.width, k % render.width>>

(***************************************************************************)
(* The generator model: workers calling rand().  utils.rs keeps one StdRng *)
(* behind a Mutex (RNG.lock().unwrap().gen()); the utils module of lib.rs  *)
(* calls rand::random(), which uses the generator of the calling thread.   *)
(* A generator's state is the number of draws it has made; gen() reads it  *)
(* and writes it back advanced, in two steps.                              *)
(***************************************************************************)
NRandWorkers == 2

MaxCalls == 2

RandWorkers == 1..NRandWorkers

\* The generator a worker draws from: the shared one (0) or its own.
GenOf(src, w) == IF src = "utils" THEN 0 ELSE w

\* A mutant of LockFree: lock() never waits.
LockAlways(holder) == TRUE

\* RNG.lock(): the mutex is free
LockFree(holder) == holder = 0

InitRand ==
    /\ \E src \in {"utils", "lib"} :
         rng = [pc |-> [w \in RandWorkers |-> "idle"], src |-> src,
                holder |-> 0,
                gen |-> [g \in 0..NRandWorkers |-> 0],
                seen |-> [w \in RandWorkers |-> 0],
                left |-> [w \in RandWorkers |-> MaxCalls],
                draws |-> {}, returned |-> 0]
    /\ render = Idle /\ geom = Idle /\ mat = Idle /\ integ = Idle
    /\ quant = Idle /\ rej = Idle /\ pix = Idle /\ scene = Idle
    /\ cli = Idle /\ vec = Idle
    /\ bar = Idle

RandOthers ==
    <<render, geom, mat, integ, quant, rej, pix, scene, cli, vec, bar>>

\* a worker enters rand()
RandCall(w) ==
    /\ rng.pc[w] = "idle"
    /\ rng.left[w] > 0
    /\ rng' = [rng EXCEPT
                  !.pc[w] = IF rng.src = "utils" THEN "lock" ELSE "read"]
    /\ UNCHANGED RandOthers

\* RNG.lock().unwrap(): the worker waits until the mutex is free
RandLock(w) ==
    /\ rng.pc[w] = "lock"
    /\ LockFree(rng.holder)
    /\ rng' = [rng EXCEPT !.pc[w] = "read", !.holder = w]
    /\ UNCHANGED RandOthers

\* gen(): the state of the generator is read
RandRead(w) ==
    /\ rng.pc[w] = "read"
    /\ rng' = [rng EXCEPT !.pc[w] = "write",
                   !.seen[w] = rng.gen[GenOf(rng.src, w)]]
    /\ UNCHANGED RandOthers

\* gen(): the advanced state is written back
RandWrite(w) ==
    /\ rng.pc[w] = "write"
    /\ rng' = [rng EXCEPT
                  !.pc[w] = IF rng.src = "utils" THEN "unlock" ELSE "ret",
                  !.gen[GenOf(rng.src, w)] = rng.seen[w] + 1]
    /\ UNCHANGED RandOthers

\* the MutexGuard is dropped at the end of the expression
RandUnlock(w) ==
    /\ rng.pc[w] = "unlock"
    /\ rng' = [rng EXCEPT !.pc[w] = "ret",
                   !.holder = IF rng.holder = w THEN 0 ELSE rng.holder]
    /\ UNCHANGED RandOthers

\* rand() returns the draw
RandReturn(w) ==
    /\ rng.pc[w] = "ret"
    /\ rng' = [rng EXCEPT !.pc[w] = "idle", !.left[w] = rng.left[w] - 1,
                   !.draws = rng.draws
                               \cup {<<GenOf(rng.src, w), rng.seen[w]>>},
                   !.returned = rng.returned + 1]
    /\ UNCHANGED RandOthers

RandStep(w) ==
    \/ RandCall(w) \/ RandLock(w) \/ RandRead(w)
    \/ RandWrite(w) \/ RandUnlock(w) \/ RandReturn(w)

NextRand == \E w \in 1..NRandWorkers : RandStep(w)

\* Every worker thread that can run is run by the scheduler.
SpecRand ==
    /\ InitRand /\ [][NextRand]_vars
    /\ \A w \in RandWorkers : WF_vars(RandStep(w))

\* The workers inside gen() on generator g.
InGen(g) ==
    { w \in RandWorkers :
        GenOf(rng.src, w) = g /\ rng.pc[w] \in {"read", "write"} }

\* C11: at most one worker at a time reads and advances a generator's
\* state; each call advances it exactly once (the draws returned are all
\* different and as many as the generators' advances); the lock is
\* released before the call returns; and every call eventually returns.
C11_RandMutex ==
    /\ [](\A g \in 0..NRandWorkers : Cardinality(InGen(g)) <= 1)
    /\ [](Cardinality(rng.draws) = rng.returned)
    /\ [](\A w \in RandWorkers :
            rng.pc[w] \in {"ret", "idle", "lock"} => rng.holder # w)
    /\ []((\A w \in RandWorkers : rng.pc[w] = "idle")
            => \A g \in 0..NRandWorkers :
                 { d[2] : d \in { e \in rng.draws : e[1] = g } }
                     = 0..(rng.gen[g] - 1))
    /\ <>(\A w \in RandWorkers : rng.pc[w] = "idle" /\ rng.left[w] = 0)

\* C11's case: on the shared generator one worker holds the lock inside
\* gen() while another waits for it, draws having been returned already.
C11_Witness ==
    /\ rng.src = "utils"
    /\ \E w1, w2 \in RandWorkers :
         /\ rng.pc[w1] = "write" /\ rng.holder = w1
         /\ rng.pc[w2] = "lock"
    /\ rng.returned >= 2

(***************************************************************************)
(* The sampling of one pixel: the closure of main.rs / bin/raytracer.rs    *)
(* run for pixel (x, y) of a width x height image.  The colour color()     *)
(* returns for a sample is an input here.                                  *)
(***************************************************************************)
\* u = (f64::from(x) + rand()) / f64::from(width)
SampleU(x, r, width) == RDiv(RAdd(I(x), r), I(width))

\* A mutant of SampleV: the row counted from the bottom edge.
SampleVUp(y, r, height) == RDiv(RAdd(I(y), r), I(height))

\* fy = f64::from(height - y); v = (fy + rand()) / f64::from(height)
SampleV(y, r, height) == RDiv(RAdd(I(height - y), r), I(height))

SampleColors == { <<Rat(1, 4), Rat(1, 4), Rat(1, 4)>>, ones }

RECURSIVE SumVec3(_)
\* .sum::<Vec3>()
SumVec3(cols) ==
    IF cols = <<>> THEN zeros ELSE VAdd(SumVec3(Tail(cols)), Head(cols))

InitPix ==
    /\ \E width \in 1..MaxW, height \in 1..MaxH :
         \E x \in 0..(width - 1), y \in 0..(height - 1) :
           \E nsamples \in 1..MaxSamples, gamma \in Gammas :
             pix = [pc |-> "sampling", x |-> x, k |-> 0, y |-> y,
                    u |-> Zero, v |-> Zero, r1 |-> Zero, r2 |-> Zero,
                    sum |-> zeros, nsamples |-> nsamples, gamma |-> gamma,
                    col |-> zeros, width |-> width, height |-> height,
                    taken |-> <<>>]
    /\ render = Idle /\ geom = Idle /\ mat = Idle /\ integ = Idle
    /\ quant = Idle /\ rng = Idle /\ rej = Idle /\ scene = Idle
    /\ cli = Idle /\ vec = Idle
    /\ bar = Idle

PixOthers ==
    <<render, geom, mat, integ, quant, rng, rej, scene, cli, vec, bar>>

\* one turn of (0..nsamples).map(..).sum(): two draws (i/RandDen and
\* j/RandDen), one colour added
PixSample(i, j) ==
    /\ pix.pc = "sampling"
    /\ pix.k < pix.nsamples
    /\ \E c \in SampleColors :
         pix' = [pix EXCEPT !.k = pix.k + 1,
                     !.r1 = Rat(i, RandDen), !.r2 = Rat(j, RandDen),
                     !.u = SampleU(pix.x, Rat(i, RandDen), pix.width),
                     !.v = SampleV(pix.y, Rat(j, RandDen), pix.height),
                     !.sum = VAdd(pix.sum, c),
                     !.taken = Append(pix.taken, c)]
    /\ UNCHANGED PixOthers

\* .div(f64::from(nsamples)).powf(gamma) once the iterator is exhausted
PixDevelop ==
    /\ pix.pc = "sampling"
    /\ pix.k = pix.nsamples
    /\ pix' = [pix EXCEPT !.pc = "developed",
                   !.col = Develop(pix.sum, pix.nsamples, pix.gamma)]
    /\ UNCHANGED PixOthers

\* The draws taken for the samples: the smallest and the largest.
SampleDraws == {0, RandDen - 1}

NextPix ==
    \/ \E i, j \in SampleDraws : PixSample(i, j)
    \/ PixDevelop

SpecPix == InitPix /\ [][NextPix]_vars

MaxDensity == 4

\* vec3![4, 0.2, 0]
Keepout == <<I(4), Rat(1, 5), Zero>>

\* vec3![a as f64 + 0.9 * rand(), 0.2, b as f64 + 0.9 * rand()]
CellCenter(a, b, r1, r2) ==
    <<RAdd(I(a), RMul(Rat(9, 10), r1)), Rat(1, 5),
      RAdd(I(b), RMul(Rat(9, 10), r2))>>

\* A mutant of FarEnough: every centre is kept.
FarEnoughAlways(center) == TRUE

\* (center - vec3![4, 0.2, 0]).norm() > 0.9
FarEnough(center) == RGt(norm(VSub(center, Keepout)), Rat(9, 10))

\* The values of choose_mat tried: one below 0.8, 0.8 and 0.95 themselves.
ChooseMats == <<Zero, Rat(4, 5), Rat(19, 20)>>

\* The material chosen by choose_mat, randvec() and rand() drawing 1/2.
SmallMaterial(choose_mat) ==
    LET half == <<Rat(1, 2), Rat(1, 2), Rat(1, 2)>>
    IN  IF RLt(choose_mat, Rat(4, 5))
        THEN Lambertian(VMul(half, half))
        ELSE IF RLt(choose_mat, Rat(19, 20))
             THEN MetalNew(VScale(Rat(1, 2), VAdd(half, ones)),
                           RMul(Rat(1, 2), Rat(1, 2)))
             ELSE Dielectric(Rat(3, 2))

\* the vec![..] the list starts with
FixedSpheres ==
    << Sphere(IV(0, -1000, 0), I(1000),
              Lambertian(<<Rat(1, 2), Rat(1, 2), Rat(1, 2)>>)),
       Sphere(IV(-4, 1, 0), One,
              Lambertian(<<Rat(2, 5), Rat(1, 5), Rat(1, 10)>>)),
       Sphere(IV(0, 1, 0), One, Dielectric(Rat(3, 2))),
       Sphere(IV(4, 1, 0), One,
              MetalNew(<<Rat(7, 10), Rat(3, 5), Rat(1, 2)>>, Zero)) >>

InitScene ==
    /\ \E d \in 0..MaxDensity :
         scene = [pc |-> "start", a |-> -d, b |-> -d, d |-> d,
                  r1 |-> Zero, r2 |-> Zero, fixed |-> <<>>, len |-> 0,
                  last |-> None, visited |-> 0]
    /\ render = Idle /\ geom = Idle /\ mat = Idle /\ integ = Idle
    /\ quant = Idle /\ rng = Idle /\ rej = Idle /\ pix = Idle
    /\ cli = Idle /\ vec = Idle
    /\ bar = Idle

SceneOthers ==
    <<render, geom, mat, integ, quant, rng, rej, pix, cli, vec, bar>>

\* let mut list = vec![..]
SceneFixed ==
    /\ scene.pc = "start"
    /\ scene' = [scene EXCEPT !.pc = "cells", !.fixed = FixedSpheres,
                     !.len = 4]
    /\ UNCHANGED SceneOthers

\* one turn of the inner loop, at cell (scene.a, scene.b), drawing
\* i/RandDen and j/RandDen for the centre and the m-th choose_mat
SceneCell(i, j, m) ==
    /\ scene.pc = "cells"
    /\ scene.a < scene.d
    /\ LET center == CellCenter(scene.a, scene.b, Rat(i, RandDen),
                                Rat(j, RandDen))
           keep == FarEnough(center)
           wrap == scene.b + 1 = scene.d
       IN  scene' = [scene EXCEPT
                        !.a = IF wrap THEN scene.a + 1 ELSE scene.a,
                        !.b = IF wrap THEN -scene.d ELSE scene.b + 1,
                        !.r1 = Rat(i, RandDen), !.r2 = Rat(j, RandDen),
                        !.visited = scene.visited + 1,
                        !.len = IF keep THEN scene.len + 1 ELSE scene.len,
                        !.last = IF keep
                                 THEN Some(Sphere(center, Rat(1, 5),
                                                  SmallMaterial(ChooseMats[m])))
                                 ELSE None]
    /\ UNCHANGED SceneOthers

\* HittableList::new(list)
SceneDone ==
    /\ scene.pc = "cells"
    /\ scene.a >= scene.d
    /\ scene' = [scene EXCEPT !.pc = "done"]
    /\ UNCHANGED SceneOthers

NextScene ==
    \/ SceneFixed
    \/ \E i, j \in SampleDraws : \E m \in 1..3 : SceneCell(i, j, m)
    \/ SceneDone

SpecScene == InitScene /\ [][NextScene]_vars

\* The cell visited by the last turn of the loop.
LastCell ==
    IF scene.b = -scene.d THEN <<scene.a - 1, scene.d - 1>>
    ELSE <<scene.a, scene.b - 1>>

\* C13: the list starts with the ground sphere and the diffuse, glass and
\* metal spheres of radius 1; each cell of [-d,d) x [-d,d) adds at most one
\* sphere, of radius 0.2, centred at (a + 0.9 r, 0.2, b + 0.9 r') and
\* farther than 0.9 from (4, 0.2, 0), so at most (2d)^2 are added; with
\* d = 0 the list is the four fixed spheres.
C13_RandomScene ==
    /\ [](scene.pc # "start" =>
            /\ Len(scene.fixed) = 4
            /\ scene.fixed[1].center = IV(0, -1000, 0)
            /\ scene.fixed[1].radius = I(1000)
            /\ scene.fixed[2].mat.kind = "Lambertian"
            /\ scene.fixed[3].mat.kind = "Dielectric"
            /\ scene.fixed[4].mat.kind = "Metal"
            /\ \A n \in 2..4 : scene.fixed[n].radius = One
            /\ scene.len - 4 <= scene.visited
            /\ scene.visited <= (2 * scene.d) * (2 * scene.d)
            /\ scene.len >= 4)
    /\ [](IsSome(scene.last) =>
            LET s == Unwrap(scene.last)
                off == VSub(s.center, <<I(4), Rat(1, 5), Zero>>)
            IN  /\ s.radius = Rat(1, 5)
                /\ LastCell[1] \in (-scene.d)..(scene.d - 1)
                /\ LastCell[2] \in (-scene.d)..(scene.d - 1)
                /\ s.center[1]
                     = RAdd(I(LastCell[1]), RMul(Rat(9, 10), scene.r1))
                /\ s.center[2] = Rat(1, 5)
                /\ s.center[3]
                     = RAdd(I(LastCell[2]), RMul(Rat(9, 10), scene.r2))
                /\ RGe(scene.r1, Zero) /\ RLt(scene.r1, One)
                /\ RGe(scene.r2, Zero) /\ RLt(scene.r2, One)
                /\ RGt(dot(off, off), Rat(81, 100)))
    /\ [](scene.pc = "done" /\ scene.d = 0 =>
            scene.len = 4 /\ scene.last = None)
    /\ [][scene.pc = "cells" =>
            /\ scene'.len - scene.len \in {0, 1}
            /\ scene'.len # scene.len =>
                 scene'.visited = scene.visited + 1]_vars

\* C13's case: a scene finished with a density that reaches the metal
\* sphere, some cell having been rejected and the last one kept.
C13_Witness ==
    /\ scene.pc = "done"
    /\ scene.d = 4
    /\ scene.len - 4 < scene.visited
    /\ scene.len > 4 + 50
    /\ IsSome(scene.last)

(***************************************************************************)
(* The distance-to-focus option.  The text of an option value is its       *)
(* decimal numeral: the whole part and the digits after the point.         *)
(***************************************************************************)
Numeral(whole, frac) == [whole |-> whole, frac |-> frac]

RECURSIVE FracValue(_)
FracValue(digits) ==
    IF digits = <<>> THEN Zero
    ELSE RDiv(RAdd(I(Head(digits)), FracValue(Tail(digits))), I(10))

\* str::parse::<f64>() on a numeral
ParseF64(s) == RAdd(I(s.whole), FracValue(s.frac))

RECURSIVE FracDigits(_, _)
\* the digits of a fraction of [0, 1), at most as many as an f64 prints
FracDigits(x, n) ==
    IF x = Zero \/ n = 0 THEN <<>>
    ELSE LET t == RMul(x, I(10))
         IN  <<RFloor(t)>> \o FracDigits(RSub(t, I(RFloor(t))), n - 1)

\* f64::to_string() of a value that is not negative
F64ToString(x) == Numeral(RFloor(x), FracDigits(RSub(x, I(RFloor(x))), 17))

\* default_value("10.0") of the dist_to_focus argument
DistToFocusDefault == Numeral(10, <<0>>)

\* ArgMatches::value_of / structopt: the text given, else the default value
\* the argument declares
ValueOf(given, default) == IF IsSome(given) THEN given ELSE Some(default)

\* Option::unwrap_or
UnwrapOr(o, fallback) == IF IsSome(o) THEN Unwrap(o) ELSE fallback

\* --look-from and --look-at as parsed
LookPoints == { IV(13, 2, 3), IV(0, 0, 0), IV(3, 4, 0), IV(6, 8, 0) }

\* the texts given for --dist-to-focus, or none
GivenDists == { None, Some(Numeral(5, <<>>)), Some(Numeral(2, <<5>>)) }

InitCli ==
    /\ \E prog \in {"main", "raytracer"}, given \in GivenDists :
         \E look_from \in LookPoints, look_at \in LookPoints :
           cli = [pc |-> "args", prog |-> prog, given |-> given,
                  look_from |-> look_from, look_at |-> look_at,
                  dist_to_focus |-> Zero]
    /\ render = Idle /\ geom = Idle /\ mat = Idle /\ integ = Idle
    /\ quant = Idle /\ rng = Idle /\ rej = Idle /\ pix = Idle
    /\ scene = Idle /\ vec = Idle
    /\ bar = Idle

CliOthers ==
    <<render, geom, mat, integ, quant, rng, rej, pix, scene, vec, bar>>

\* main.rs: Opt::from_args(), dist_to_focus: f64 with default_value "10.0"
ParseMain ==
    /\ cli.pc = "args" /\ cli.prog = "main"
    /\ cli' = [cli EXCEPT !.pc = "parsed",
                   !.dist_to_focus =
                       ParseF64(Unwrap(ValueOf(cli.given, DistToFocusDefault)))]
    /\ UNCHANGED CliOthers

\* bin/raytracer.rs: matches.value_of("dist_to_focus")
\*     .unwrap_or(&(lookfrom - lookat).norm().to_string()).parse::<f64>()
ParseRaytracer ==
    /\ cli.pc = "args" /\ cli.prog = "raytracer"
    /\ cli' = [cli EXCEPT !.pc = "parsed",
                   !.dist_to_focus =
                       ParseF64(UnwrapOr(
                           ValueOf(cli.given, DistToFocusDefault),
                           F64ToString(norm(VSub(cli.look_from, cli.look_at)))))]
    /\ UNCHANGED CliOthers

NextCli == ParseMain \/ ParseRaytracer

SpecCli == InitCli /\ [][NextCli]_vars

\* C14: when --dist-to-focus is not given, the focus distance passed to
\* Camera::new is |look_from - look_at|.
C14_FocusDefault ==
    cli.pc = "parsed" /\ cli.given = None =>
        cli.dist_to_focus = norm(VSub(cli.look_from, cli.look_at))

(***************************************************************************)
(* Vec3 on its own: reflect, refract, and the conversions from a Vec<f64>  *)
(* and from an iterator of f64.  A conversion ends in a Vec3 or in a       *)
(* panic.                                                                  *)
(***************************************************************************)
MaxElems == 4

Built(x, y, z) == <<"ok", <<x, y, z>>>>

Panicked(found) == <<"panic", found>>

\* impl FromIterator<f64> for Vec3: three next().expect(..), then the match
\* on a fourth next()
FromIter(it) ==
    IF Len(it) = 0 THEN Panicked(0)
    ELSE IF Len(it) = 1 THEN Panicked(1)
    ELSE IF Len(it) = 2 THEN Panicked(2)
    ELSE IF Len(it) = 3 THEN Built(it[1], it[2], it[3])
    ELSE Panicked(4)

\* A mutant of FromVec: the first three elements of a longer Vec are taken.
FromVecTruncating(elems) ==
    IF Len(elems) < 3 THEN Panicked(Len(elems))
    ELSE Built(elems[1], elems[2], elems[3])

\* impl From<Vec<f64>> for Vec3
FromVec(elems) ==
    IF Len(elems) # 3 THEN Panicked(Len(elems))
    ELSE Built(elems[1], elems[2], elems[3])

\* Incident directions and vectors to reflect; their norms are rational.
VecInputs ==
    { IV(0, 1, 0), IV(0, -1, 0), IV(1, 0, 0), IV(0, 0, -2), IV(3, 4, 0),
      IV(3, -4, 0), IV(-3, 0, 4), IV(1, 2, 2), IV(2, -1, 2), IV(-2, -2, 1),
      <<Rat(3, 5), Rat(-4, 5), Zero>> }

\* Normals of length 1.
UnitNormals ==
    { IV(0, 1, 0), IV(0, -1, 0), IV(1, 0, 0),
      <<Rat(3, 5), Rat(4, 5), Zero>>, <<Rat(-3, 5), Zero, Rat(4, 5)>>,
      <<Rat(1, 3), Rat(2, 3), Rat(2, 3)>>,
      <<Rat(2, 3), Rat(-1, 3), Rat(2, 3)>> }

ElemVals == { I(1), I(2), I(3) }

InitVec ==
    /\ \/ \E v \in VecInputs, n \in UnitNormals :
            vec = [pc |-> "vectors", n |-> n, v |-> v, out |-> None,
                   made |-> None, elems |-> <<>>, back |-> None]
       \/ \E elems \in SeqsUpTo(ElemVals, MaxElems) :
            vec = [pc |-> "elements", n |-> zeros, v |-> zeros, out |-> None,
                   made |-> None, elems |-> elems, back |-> None]
    /\ render = Idle /\ geom = Idle /\ mat = Idle /\ integ = Idle
    /\ quant = Idle /\ rng = Idle /\ rej = Idle /\ pix = Idle
    /\ scene = Idle /\ cli = Idle
    /\ bar = Idle

VecOthers ==
    <<render, geom, mat, integ, quant, rng, rej, pix, scene, cli, bar>>

\* v.reflect(n)
VecReflect ==
    /\ vec.pc = "vectors"
    /\ vec' = [vec EXCEPT !.pc = "reflected",
                   !.out = Some(reflect(vec.v, vec.n))]
    /\ UNCHANGED VecOthers

\* v.reflect(n).reflect(n)
VecReflectAgain ==
    /\ vec.pc = "reflected"
    /\ vec' = [vec EXCEPT !.pc = "reflected twice",
                   !.back = Some(reflect(Unwrap(vec.out), vec.n))]
    /\ UNCHANGED VecOthers

\* v.refract(n, 1.0)
VecRefract ==
    /\ vec.pc = "vectors"
    /\ vec' = [vec EXCEPT !.pc = "refracted",
                   !.out = refract(vec.v, vec.n, One)]
    /\ UNCHANGED VecOthers

\* Vec3::from(vec)
VecFromVec ==
    /\ vec.pc = "elements"
    /\ vec' = [vec EXCEPT !.pc = "from vec", !.made = FromVec(vec.elems)]
    /\ UNCHANGED VecOthers

\* vec.into_iter().collect::<Vec3>()
VecFromIter ==
    /\ vec.pc = "elements"
    /\ vec' = [vec EXCEPT !.pc = "from iter", !.made = FromIter(vec.elems)]
    /\ UNCHANGED VecOthers

NextVec ==
    \/ VecReflect \/ VecReflectAgain \/ VecRefract
    \/ VecFromVec \/ VecFromIter

SpecVec == InitVec /\ [][NextVec]_vars

\* C15: with ni_over_nt = 1, refract(v, n, 1) is Some(v unitized) for every
\* unit normal n and every incident direction v.
C15_RefractMatched ==
    vec.pc = "refracted" => vec.out = Some(unitize(vec.v))

\* C16: for a unit n, dot(reflect(v, n), n) = -dot(v, n), and reflecting
\* the reflection about n again gives v.
C16_Reflect ==
    /\ vec.pc \in {"reflected", "reflected twice"} =>
         /\ dot(Unwrap(vec.out), vec.n) = RNeg(dot(vec.v, vec.n))
         /\ \A c \in 1..3 :
              Unwrap(vec.out)[c]
                = RSub(vec.v[c], RMul(RMul(I(2), dot(vec.v, vec.n)), vec.n[c]))
    /\ vec.pc = "reflected twice" => vec.back = Some(vec.v)

\* C16's case: a vector neither along nor across the normal reflected twice.
C16_Witness ==
    /\ vec.pc = "reflected twice"
    /\ dot(vec.v, vec.n) # Zero
    /\ Unwrap(vec.out) # vec.v /\ Unwrap(vec.out) # VNeg(vec.v)
    /\ vec.n = <<Rat(1, 3), Rat(2, 3), Rat(2, 3)>>

\* C18: a Vec3 is built from a Vec<f64> or an iterator exactly when it has
\* 3 elements, from these in order; every other length panics.
C18_FromExactlyThree ==
    vec.pc \in {"from vec", "from iter"} =>
        /\ vec.made[1] = "ok" <=> Len(vec.elems) = 3
        /\ vec.made[1] = "ok" =>
             vec.made[2] = <<vec.elems[1], vec.elems[2], vec.elems[3]>>
        /\ Len(vec.elems) # 3 => vec.made[1] = "panic"

\* C18's case: four elements given to From<Vec<f64>>, which panics.
C18_Witness ==
    /\ vec.pc = "from vec"
    /\ Len(vec.elems) = 4
    /\ vec.made[1] = "panic"

(***************************************************************************)
(* Tangent rays and equal hits, under SpecGeom.                            *)
(***************************************************************************)
\* b^2 - a*c of Sphere::hit for a sphere and a ray
Discriminant(sph, ray) ==
    LET oc == VSub(ray.origin, sph.center)
    IN  RSub(RPowi(dot(oc, ray.direction), 2),
             RMul(dot(ray.direction, ray.direction),
                  RSub(dot(oc, oc), RPowi(sph.radius, 2))))

\* -b/a: the parameter at which a tangent ray touches the sphere
TangentT(sph, ray) ==
    RDiv(RNeg(dot(VSub(ray.origin, sph.center), ray.direction)),
         dot(ray.direction, ray.direction))

\* C17: a ray tangent to the sphere (discriminant 0) gets no hit from
\* Sphere::hit, whatever the window.
C17_TangentNoHit ==
    geom.pc = "sphere"
      /\ Discriminant(geom.items[geom.idx], geom.ray) = Zero
        => geom.srec = None

\* C17's case: a tangent ray whose point of tangency lies inside the
\* window, and no hit.
C17_Witness ==
    /\ geom.pc = "sphere"
    /\ Discriminant(geom.items[geom.idx], geom.ray) = Zero
    /\ RGt(TangentT(geom.items[geom.idx], geom.ray), geom.window[1])
    /\ RLt(TangentT(geom.items[geom.idx], geom.ray), geom.window[2])
    /\ geom.srec = None

\* The items whose own hit in the window is at the smallest t of the list.
TiedAtNearest(items, ray, window) ==
    { i \in 1..Len(items) :
        /\ IsSome(SphereHit(items[i], ray, window[1], window[2]))
        /\ \A t \in OwnTs(items, ray, window) :
             RLe(Unwrap(SphereHit(items[i], ray, window[1], window[2])).t, t) }

\* C19: when two or more items are hit at the same smallest t of the
\* window, HittableList::hit returns the record of the first of them in
\* the list.
C19_FirstOfTies ==
    geom.pc = "hit"
      /\ Cardinality(TiedAtNearest(geom.items, geom.ray, geom.window)) >= 2
        => LET tied == TiedAtNearest(geom.items, geom.ray, geom.window)
               first == CHOOSE i \in tied : \A j \in tied : i <= j
           IN  geom.rec = SphereHit(geom.items[first], geom.ray,
                                    geom.window[1], geom.window[2])

\* C19's case: two spheres of different materials hit at the same t, the
\* first one's record returned.
C19_Witness ==
    /\ geom.pc = "hit"
    /\ Len(geom.items) >= 2
    /\ TiedAtNearest(geom.items, geom.ray, geom.window) = {1, 2}
    /\ geom.items[1].mat # geom.items[2].mat
    /\ IsSome(geom.rec)
    /\ Unwrap(geom.rec).material = geom.items[1].mat

(***************************************************************************)
(* The rejection loops: random_in_unit_sphere (utils.rs) and               *)
(* random_in_unit_disk (camera.rs).  The number of rejected draws is       *)
(* counted up to MaxRejections and stays there; the loops have no bound.   *)
(***************************************************************************)
MaxRejections == 2

\* 2.0 * randvec() - Vec3::ones(), 2.0 * vec3![rand(), rand(), 0] - one_one_zero
RejCandidate(fn, r1, r2, r3) ==
    IF fn = "sphere"
    THEN VSub(VScale(I(2), <<r1, r2, r3>>), ones)
    ELSE VSub(VScale(I(2), <<r1, r2, Zero>>), <<One, One, Zero>>)

\* A mutant of Accepts: the unit sphere itself is accepted.
AcceptsClosed(p) == RLe(norm2(p), One)

\* if p.norm2() < 1.0 { return p; } / while p.norm2() >= 1.0
Accepts(p) == RLt(norm2(p), One)

InitRej ==
    /\ \E fn \in {"sphere", "disk"} :
         rej = [pc |-> "loop", p |-> zeros, r |-> zeros, fn |-> fn,
                rejections |-> 0, drawn |-> FALSE]
    /\ render = Idle /\ geom = Idle /\ mat = Idle /\ integ = Idle
    /\ quant = Idle /\ rng = Idle /\ pix = Idle /\ scene = Idle
    /\ cli = Idle /\ vec = Idle
    /\ bar = Idle

RejOthers ==
    <<render, geom, mat, integ, quant, rng, pix, scene, cli, vec, bar>>

\* The draws of one turn: i/RandDen, j/RandDen and, for the sphere,
\* k/RandDen.
RejDraws(i, j, k) ==
    <<Rat(i, RandDen), Rat(j, RandDen),
      IF rej.fn = "sphere" THEN Rat(k, RandDen) ELSE Zero>>

\* a turn of the loop draws its candidate
RejDraw(i, j, k) ==
    /\ rej.pc = "loop"
    /\ rej.fn = "disk" => k = 0
    /\ rej' = [rej EXCEPT !.pc = "test", !.r = RejDraws(i, j, k),
                   !.p = RejCandidate(rej.fn, RejDraws(i, j, k)[1],
                                      RejDraws(i, j, k)[2],
                                      RejDraws(i, j, k)[3]),
                   !.drawn = TRUE]
    /\ UNCHANGED RejOthers

\* the candidate fails the test and the loop goes on
RejReject ==
    /\ rej.pc = "test"
    /\ ~Accepts(rej.p)
    /\ rej' = [rej EXCEPT !.pc = "loop",
                   !.rejections = IF rej.rejections < MaxRejections
                                  THEN rej.rejections + 1
                                  ELSE MaxRejections]
    /\ UNCHANGED RejOthers

\* the candidate passes the test and is returned
RejAccept ==
    /\ rej.pc = "test"
    /\ Accepts(rej.p)
    /\ rej' = [rej EXCEPT !.pc = "returned"]
    /\ UNCHANGED RejOthers

NextRej ==
    \/ \E i, j, k \in 0..(RandDen - 1) : RejDraw(i, j, k)
    \/ RejReject
    \/ RejAccept

\* The candidate just drawn is one the loop accepts.
GoodCandidate == rej.pc = "test" /\ Accepts(rej.p)

\* The generator, asked again and again, yields a draw the loop accepts.
GeneratorFair == []<>(rej.pc = "returned" \/ GoodCandidate)

\* Weak fairness of the test of the candidate, written out: the test is
\* enabled exactly when a candidate has been drawn.
TestFair ==
    \/ []<>(rej.pc # "test")
    \/ []<><<RejReject \/ RejAccept>>_vars

\* The code takes its steps and the generator is fair.
SpecRej == InitRej /\ [][NextRej]_vars /\ TestFair /\ GeneratorFair

\* C20: the vector returned is 2*(r1,r2,r3) - (1,1,1) (for the disk
\* 2*(r1,r2,0) - (1,1,0), so z = 0) with p.p < 1; every draw with
\* p.p >= 1 is rejected and the loop goes on, so the first accepted draw is
\* returned; and the loop returns once the generator yields such a draw.
C20_Rejection ==
    /\ [](rej.pc = "returned" =>
            /\ \A c \in 1..3 : RGe(rej.r[c], Zero) /\ RLt(rej.r[c], One)
            /\ rej.p[1] = RSub(RMul(I(2), rej.r[1]), One)
            /\ rej.p[2] = RSub(RMul(I(2), rej.r[2]), One)
            /\ rej.p[3] = IF rej.fn = "sphere"
                          THEN RSub(RMul(I(2), rej.r[3]), One) ELSE Zero
            /\ RLt(dot(rej.p, rej.p), One))
    /\ [](rej.pc = "loop" /\ rej.drawn => RGe(dot(rej.p, rej.p), One))
    /\ [][rej.pc = "test" =>
            /\ rej'.p = rej.p
            /\ rej'.pc = "returned" <=> RLt(dot(rej.p, rej.p), One)
            /\ rej'.pc = "loop" <=> RGe(dot(rej.p, rej.p), One)]_vars
    /\ <>(rej.pc = "returned")

\* C20's case: the sphere loop returns a draw other than the centre after
\* rejecting others.
C20_Witness ==
    /\ rej.pc = "returned"
    /\ rej.fn = "sphere"
    /\ rej.rejections = MaxRejections
    /\ rej.p # zeros

(***************************************************************************)
(* The lower end of the fuzz, under SpecMat.                               *)
(***************************************************************************)
\* C21: every Metal material built has its fuzz inside [0, 1], whatever
\* fuzz was passed: a negative argument is stored as a value not below 0.
C21_FuzzInUnitInterval ==
    (mat.pc \in {"made", "scattered"} /\ mat.material.kind = "Metal") =>
        /\ RGe(mat.material.fuzz, Zero)
        /\ RLe(mat.material.fuzz, One)

(***************************************************************************)
(* The sort key of main.rs, under SpecRender.                              *)
(***************************************************************************)
\* C22: in main.rs the key y * width + x of every pixel of a row that was
\* built is the row-major position y*W + x: the u16 computation neither
\* panics nor wraps, so the keys of an image are all different.
C22_KeyIsPosition ==
    render.prog = "main" =>
        /\ render.pc # "panicked"
        /\ \A y \in FinishedRows : \A x \in 0..(render.width - 1) :
             /\ ~KeyOverflows(render.prog, render.width, y, x)
             /\ PixelKey(render.prog, render.width, y, x)
                  = y * render.width + x

(***************************************************************************)
(* The progress bar.  Its length and position are u64 values, kept as four *)
(* 16-bit limbs, least significant first, so that the 32-bit product of    *)
(* main.rs can leave its type.                                             *)
(***************************************************************************)
\* a value below 2^31 as limbs
Wide(n) == <<n % U16Range, n \div U16Range, 0, 0>>

\* u64 addition
WAdd(a, b) ==
    LET s1 == a[1] + b[1]
        s2 == a[2] + b[2] + (s1 \div U16Range)
        s3 == a[3] + b[3] + (s2 \div U16Range)
        s4 == a[4] + b[4] + (s3 \div U16Range)
    IN  <<s1 % U16Range, s2 % U16Range, s3 % U16Range, s4 % U16Range>>

\* the product of a value and a factor below 2^15, which fits 64 bits here
WMul(a, k) ==
    LET p1 == a[1] * k
        p2 == a[2] * k + (p1 \div U16Range)
        p3 == a[3] * k + (p2 \div U16Range)
        p4 == a[4] * k + (p3 \div U16Range)
    IN  <<p1 % U16Range, p2 % U16Range, p3 % U16Range, p4 % U16Range>>

\* the value is in the range of u32
FitsU32(a) == a[3] = 0 /\ a[4] = 0

\* the low 32 bits: what a u32 multiplication without overflow checks keeps
WrapU32(a) == <<a[1], a[2], 0, 0>>

\* --nsamples: 1, 2, 2^30 and u32::MAX
NSamplesArgs ==
    { Wide(1), Wide(2), <<0, 2^14, 0, 0>>,
      <<U16Range - 1, U16Range - 1, 0, 0>> }

\* main.rs multiplies in u32, bin/raytracer.rs in usize (64 bits)
LengthOverflows(prog, width, height, nsamples) ==
    prog = "main" /\ ~FitsU32(WMul(nsamples, height * width))

\* u64::from(u32::from(height) * u32::from(width) * nsamples) of main.rs,
\* (height * width * nsamples) as u64 of bin/raytracer.rs
BarLength(prog, width, height, nsamples) ==
    IF prog = "main" THEN WrapU32(WMul(nsamples, height * width))
    ELSE WMul(nsamples, height * width)

InitBar ==
    /\ \E prog \in {"main", "raytracer"}, build \in {"debug", "release"} :
         \E width \in 1..MaxW, height \in 1..MaxH :
           \E nsamples \in NSamplesArgs :
             bar = [pc |-> "start", nsamples |-> nsamples, prog |-> prog,
                    next |-> [y \in 0..(height - 1) |-> 0],
                    width |-> width, height |-> height, build |-> build,
                    length |-> Wide(0), pos |-> Wide(0)]
    /\ render = Idle /\ geom = Idle /\ mat = Idle /\ integ = Idle
    /\ quant = Idle /\ rng = Idle /\ rej = Idle /\ pix = Idle
    /\ scene = Idle /\ cli = Idle /\ vec = Idle

BarOthers ==
    <<render, geom, mat, integ, quant, rng, rej, pix, scene, cli, vec>>

\* ProgressBar::new(..)
BarNew ==
    /\ bar.pc = "start"
    /\ ~(bar.build = "debug"
           /\ LengthOverflows(bar.prog, bar.width, bar.height, bar.nsamples))
    /\ bar' = [bar EXCEPT !.pc = "rendering",
                   !.length = BarLength(bar.prog, bar.width, bar.height,
                                        bar.nsamples)]
    /\ UNCHANGED BarOthers

\* the u32 product overflows in a build with overflow checks: main panics
\* before any pixel is rendered
BarPanic ==
    /\ bar.pc = "start"
    /\ bar.build = "debug"
    /\ LengthOverflows(bar.prog, bar.width, bar.height, bar.nsamples)
    /\ bar' = [bar EXCEPT !.pc = "panicked"]
    /\ UNCHANGED BarOthers

\* the worker of row y finishes its next pixel: pb.inc(nsamples)
BarPixel(y) ==
    /\ bar.pc = "rendering"
    /\ y \in 0..(bar.height - 1)
    /\ bar.next[y] < bar.width
    /\ bar' = [bar EXCEPT !.next[y] = bar.next[y] + 1,
                   !.pos = WAdd(bar.pos, bar.nsamples)]
    /\ UNCHANGED BarOthers

\* every row is done: collect() returns
BarFinish ==
    /\ bar.pc = "rendering"
    /\ \A y \in 0..(bar.height - 1) : bar.next[y] = bar.width
    /\ bar' = [bar EXCEPT !.pc = "finished"]
    /\ UNCHANGED BarOthers

NextBar ==
    \/ BarNew
    \/ BarPanic
    \/ \E y \in 0..(MaxH - 1) : BarPixel(y)
    \/ BarFinish

SpecBar == InitBar /\ [][NextBar]_vars

RECURSIVE PixelsDone(_)
\* The number of pixels done in rows 0..y.
PixelsDone(y) == IF y < 0 THEN 0 ELSE bar.next[y] + PixelsDone(y - 1)

\* C23: the counter goes up by nsamples once per pixel, so when rendering
\* finishes it is W*H*nsamples and equals the length the bar was created
\* with, the product having been computed without overflow.
C23_ProgressTotal ==
    /\ bar.pc # "panicked"
    /\ bar.pc \in {"rendering", "finished"} =>
         bar.pos = WMul(bar.nsamples, PixelsDone(bar.height - 1))
    /\ bar.pc = "finished" =>
         /\ bar.pos = WMul(bar.nsamples, bar.width * bar.height)
         /\ bar.length = bar.pos

====
